---- MODULE Spec2Model ----
(***************************************************************************)
(* Model of the diamond line-of-sight engine (src/src/diamond.rs) running  *)
(* against the array-backed host map of the test module (src/src/lib.rs).  *)
(* One compute_los call is split into its steps: the prologue (capacity    *)
(* check, seed, propagation from the origin), one step per propagate_from  *)
(* call of the ring sweep, the emission scan and the final reset.          *)
(***************************************************************************)
EXTENDS Integers, Sequences, FiniteSets

(* ------------------------------ bounds --------------------------------- *)

\* The explored host maps are corridors of CorridorLen x 1 cells and squares
\* of SquareSide x SquareSide cells.
CorridorLen == 5
SquareSide == 2
\* Largest number of blocking cells on an explored host map.
MaxWalls == 2
\* Largest vision_range of an explored call and largest max_view_range an
\* engine is constructed with.
MaxRadius == 4

(* --------------------- scenario constants (tests) ---------------------- *)

\* ArrayMapProvider::new((5, 5)) of the four tests.
TestSize == 5
\* DiamondLos::new(5) and compute_los(.., 10, ..) of test_empty and the wall tests.
TestRange == 5
TestRadius == 10
\* DiamondLos::new(4) and compute_los(Coord(1, 0), 4, ..) of test_vision_field.
FieldRadius == 4

(* ------------------------------ Coord ---------------------------------- *)

Coord(x, y) == <<x, y>>

add(a, b) == Coord(a[1] + b[1], a[2] + b[2])

abs(n) == IF n < 0 THEN -n ELSE n

\* Manhattan length of an offset.
Dist(o) == abs(o[1]) + abs(o[2])

(* ------------------------------ Map<T> --------------------------------- *)

MapNew(width, height, initial_value) ==
    [height |-> height, inner |-> [i \in 1..(width * height) |-> initial_value]]

\* The condition of the debug assertion of the container.
assert_in_bounds(m, index) ==
    /\ index[2] >= 0
    /\ index[2] < m.height
    /\ index[1] >= 0
    /\ index[1] < Len(m.inner) \div m.height

\* Slot of the flat vector (1-based here).
Slot(m, index) == index[2] * m.height + index[1] + 1

index(m, c) == m.inner[Slot(m, c)]

index_mut(m, c, v) == [m EXCEPT !.inner[Slot(m, c)] = v]

(* ----------------------------- CellData -------------------------------- *)

CellDefault == [obs |-> <<0, 0>>, err |-> <<0, 0>>, ignore |-> FALSE, visited |-> FALSE]

is_wall(d) == d.err = d.obs

is_obstacle(d) ==
    \/ d.err[1] # 0 /\ d.err[1] <= d.obs[1]
    \/ d.err[2] # 0 /\ d.err[2] <= d.obs[2]

\* is_visible without the visited test.
is_visible_unvisited(d) == ~d.ignore /\ (~is_obstacle(d) \/ is_wall(d))

\* is_visible without the exception for the wall that originates the shadow.
is_visible_no_wall(d) == d.visited /\ ~d.ignore /\ ~is_obstacle(d)

is_visible(d) == d.visited /\ ~d.ignore /\ (~is_obstacle(d) \/ is_wall(d))

(* --------------------------- host map ---------------------------------- *)

\* ArrayMapProvider: a size and the set of blocking cells.
ArrayMapProvider(w, h, walls) == [size |-> <<w, h>>, walls |-> walls]

Cells(map) == (0..(map.size[1] - 1)) \X (0..(map.size[2] - 1))

is_blocking(map, c) == c \in map.walls

bounds(map) == <<Coord(0, 0), Coord(map.size[1] - 1, map.size[2] - 1)>>

is_in_bounds(cell, map) ==
    LET b == bounds(map)
    IN  /\ cell[1] >= b[1][1]
        /\ cell[1] <= b[2][1]
        /\ cell[2] >= b[1][2]
        /\ cell[2] <= b[2][2]

(* ----------------------------- DiamondLos ------------------------------ *)

DiamondLosNew(max_view_range) ==
    [origin |-> Coord(0, 0),
     max_view_range |-> max_view_range,
     cache |-> MapNew(max_view_range * 2 + 1, max_view_range * 2 + 1, CellDefault)]

CacheIndex(eng, offset) ==
    Coord(offset[1] + eng.max_view_range, offset[2] + eng.max_view_range)

\* Whether get_data / get_data_mut at this offset passes the bounds assertion.
InCache(eng, offset) == assert_in_bounds(eng.cache, CacheIndex(eng, offset))

get_data(eng, offset) == index(eng.cache, CacheIndex(eng, offset))

get_data_mut(eng, offset, d) ==
    [eng EXCEPT !.cache = index_mut(eng.cache, CacheIndex(eng, offset), d)]

\* Line 87 without the test of the target's own state.
next_ignore_any(self_data, input_data) == is_obstacle(input_data)

\* Line 87: the ignore flag apply_ray leaves on the target.
next_ignore(self_data, input_data) ==
    (~self_data.visited \/ self_data.ignore) /\ is_obstacle(input_data)

\* Lines 59-85 with the error term copied instead of adjusted.
inherit_unadjusted(self_data, input_data, offset, input) ==
    IF input_data.obs = <<0, 0>> THEN self_data
    ELSE IF offset[1] # input[1]
    THEN IF /\ input_data.err[1] > 0
            /\ \/ self_data.obs[1] = 0
               \/ input_data.err[2] <= 0 /\ input_data.obs[2] > 0
         THEN [self_data EXCEPT !.obs = input_data.obs, !.err = input_data.err]
         ELSE self_data
    ELSE IF /\ input_data.err[2] > 0
            /\ \/ self_data.obs[2] = 0
               \/ input_data.err[1] <= 0 /\ input_data.obs[1] > 0
         THEN [self_data EXCEPT !.obs = input_data.obs, !.err = input_data.err]
         ELSE self_data

\* Lines 59-85: the obstruction the target inherits from its input.
inherit(self_data, input_data, offset, input) ==
    IF input_data.obs = <<0, 0>> THEN self_data
    ELSE IF offset[1] # input[1]
    THEN IF /\ input_data.err[1] > 0
            /\ \/ self_data.obs[1] = 0
               \/ input_data.err[2] <= 0 /\ input_data.obs[2] > 0
         THEN [self_data EXCEPT
                 !.obs = input_data.obs,
                 !.err = <<input_data.err[1] - input_data.obs[2],
                           input_data.err[2] + input_data.obs[2]>>]
         ELSE self_data
    ELSE IF /\ input_data.err[2] > 0
            /\ \/ self_data.obs[2] = 0
               \/ input_data.err[1] <= 0 /\ input_data.obs[1] > 0
         THEN [self_data EXCEPT
                 !.obs = input_data.obs,
                 !.err = <<input_data.err[1] + input_data.obs[1],
                           input_data.err[2] - input_data.obs[1]>>]
         ELSE self_data

\* Lines 89-92: a blocking target that is not ignored becomes a wall origin.
mark_wall(d, offset, blocking) ==
    IF ~d.ignore /\ blocking
    THEN [d EXCEPT !.obs = <<abs(offset[1]), abs(offset[2])>>,
                   !.err = <<abs(offset[1]), abs(offset[2])>>]
    ELSE d

\* The cell apply_ray writes at its target, from the target's and the input's data.
apply_ray_cell(self_data, input_data, offset, input, blocking) ==
    LET d1 == inherit(self_data, input_data, offset, input)
        d2 == [d1 EXCEPT !.ignore = next_ignore(d1, input_data)]
        d3 == mark_wall(d2, offset, blocking)
    IN  [d3 EXCEPT !.visited = TRUE]

\* A run is the engine plus whether a container assertion has failed.
Run(eng, panicked) == [eng |-> eng, panicked |-> panicked]

apply_ray(st, offset, input, map) ==
    IF st.panicked \/ ~is_in_bounds(add(st.eng.origin, offset), map) THEN st
    ELSE IF ~InCache(st.eng, input) \/ ~InCache(st.eng, offset)
    THEN Run(st.eng, TRUE)
    ELSE Run(get_data_mut(st.eng, offset,
                 apply_ray_cell(get_data(st.eng, offset), get_data(st.eng, input),
                                offset, input,
                                is_blocking(map, add(st.eng.origin, offset)))),
             FALSE)

\* The neighbours propagate_from pushes to, in the order of lines 36-47.
Outward(offset) ==
    (IF offset[1] >= 0 THEN <<add(offset, Coord(1, 0))>> ELSE <<>>)
    \o (IF offset[2] >= 0 THEN <<add(offset, Coord(0, 1))>> ELSE <<>>)
    \o (IF offset[1] <= 0 THEN <<add(offset, Coord(-1, 0))>> ELSE <<>>)
    \o (IF offset[2] <= 0 THEN <<add(offset, Coord(0, -1))>> ELSE <<>>)

RECURSIVE apply_rays(_, _, _, _)
apply_rays(st, targets, input, map) ==
    IF targets = <<>> THEN st
    ELSE CHOOSE r \in {apply_rays(s, Tail(targets), input, map) :
                          s \in {apply_ray(st, Head(targets), input, map)}} : TRUE

propagate_from(st, offset, map) ==
    IF st.panicked \/ ~is_in_bounds(add(st.eng.origin, offset), map) THEN st
    ELSE IF ~InCache(st.eng, offset) THEN Run(st.eng, TRUE)
    ELSE IF get_data(st.eng, offset).ignore THEN st
    ELSE apply_rays(st, Outward(offset), offset, map)

\* reset that leaves the flags of the cells in place.
reset_partial(eng) ==
    [eng EXCEPT !.cache.inner =
        [i \in DOMAIN eng.cache.inner |->
            [eng.cache.inner[i] EXCEPT !.obs = <<0, 0>>, !.err = <<0, 0>>]]]

reset(eng) ==
    [eng EXCEPT !.cache.inner = [i \in DOMAIN eng.cache.inner |-> CellDefault]]

\* Lines 130-136: the scratch grid grows to the largest radius requested.
ensure_capacity(eng, vision_range) ==
    IF vision_range > eng.max_view_range
    THEN [eng EXCEPT !.max_view_range = vision_range,
                     !.cache = MapNew(vision_range * 2 + 1, vision_range * 2 + 1,
                                      CellDefault)]
    ELSE eng

\* No mark for the origin before the sweep.
seed_marked_none(origin) == {}

\* Line 140: the origin is reported visible before anything else.
seed_marked(origin) == {origin}

\* Lines 130-146: everything compute_los does before the ring sweep.
prologue(eng, origin, vision_range, map) ==
    LET zero == Coord(0, 0)
    IN  CHOOSE st \in
            {propagate_from(Run(e2, FALSE), zero, map) : e2 \in
                {get_data_mut(e1, zero, [get_data(e1, zero) EXCEPT !.visited = TRUE]) :
                    e1 \in {[ensure_capacity(eng, vision_range) EXCEPT !.origin = origin]}}} :
            TRUE

\* A ring sweep that also propagates from the ring at vision_range.
ring_end_inclusive(vision_range) == vision_range + 1

\* A ring sweep that stops one ring early.
ring_end_short(vision_range) == vision_range - 1

\* Line 148: `for distance in 1..vision_range`, the exclusive upper end.
ring_end(vision_range) == vision_range

\* Lines 149-172: the k-th offset (k = 0 .. 4*distance-1) of the ring at distance.
RingOffset(distance, k) ==
    LET j == k % distance
    IN  CASE k \div distance = 0 -> Coord(distance - j, j)
          [] k \div distance = 1 -> Coord(-j, distance - j)
          [] k \div distance = 2 -> Coord(j - distance, -j)
          [] OTHER               -> Coord(j, j - distance)

\* Lines 175-186: the coordinates the emission scan reports.
emission(eng, origin, vision_range, map) ==
    {add(o, origin) : o \in
        {o \in ((-vision_range)..vision_range) \X ((-vision_range)..vision_range) :
            /\ is_in_bounds(add(o, origin), map)
            /\ is_visible(get_data(eng, o))}}

\* Whether the emission scan reads outside the scratch grid.
EmissionPanics(eng, origin, vision_range, map) ==
    \E o \in ((-vision_range)..vision_range) \X ((-vision_range)..vision_range) :
        is_in_bounds(add(o, origin), map) /\ ~InCache(eng, o)

(* --------------------- compute_los as one function --------------------- *)

RECURSIVE sweep(_, _, _, _, _)
sweep(st, distance, k, vision_range, map) ==
    IF distance >= ring_end(vision_range) \/ st.panicked THEN st
    ELSE IF k >= 4 * distance THEN sweep(st, distance + 1, 0, vision_range, map)
    ELSE CHOOSE r \in {sweep(s, distance, k + 1, vision_range, map) :
                          s \in {propagate_from(st, RingOffset(distance, k), map)}} : TRUE

\* The coordinates one whole compute_los call on engine eng reports.
compute_los(eng, origin, vision_range, map) ==
    CHOOSE m \in
        {IF st.panicked \/ EmissionPanics(st.eng, origin, vision_range, map)
         THEN seed_marked(origin)
         ELSE seed_marked(origin) \cup emission(st.eng, origin, vision_range, map) :
            st \in {sweep(p, 1, 0, vision_range, map) :
                       p \in {prologue(eng, origin, vision_range, map)}}} : TRUE

(* ------------------------------ state ---------------------------------- *)

VARIABLES
    engine,        \* the DiamondLos instance
    hostmap,       \* the ArrayMapProvider: size and walls
    marked,        \* coordinates passed to mark_as_visible by the current call
    pc,            \* "idle", "sweep", "emitted", or "panic" once a scratch
                   \* access has failed the container's bounds assertion
    vision_range,  \* argument of the current call
    distance,      \* loop variable of the ring sweep
    pos            \* position on the current ring, 0 .. 4*distance-1

vars == <<engine, hostmap, marked, pc, vision_range, distance, pos>>

\* The maps of the tests: test_empty and test_vision_field,
\* test_vision_walls_aligned (S3), test_vision_walls (S4).
EmptyTestMap == ArrayMapProvider(TestSize, TestSize, {})

S3Map == ArrayMapProvider(TestSize, TestSize, {Coord(2, 0), Coord(3, 0), Coord(0, 2)})

S4Map == ArrayMapProvider(TestSize, TestSize, {Coord(3, 1), Coord(2, 2)})

IsTestMap(map) == map.size = <<TestSize, TestSize>>

SmallSizes == {<<CorridorLen, 1>>, <<SquareSide, SquareSide>>}

SmallMaps ==
    UNION {{ArrayMapProvider(sz[1], sz[2], walls) : walls \in
                {s \in SUBSET ((0..(sz[1] - 1)) \X (0..(sz[2] - 1))) :
                    Cardinality(s) <= MaxWalls}} : sz \in SmallSizes}

TestMaps == {EmptyTestMap, S3Map, S4Map}

\* The calls explored on a map: every in-bounds origin and radius up to
\* MaxRadius on the small maps, the calls of the tests on the test maps.
Calls(map) ==
    IF IsTestMap(map)
    THEN IF map.walls = {}
         THEN {<<Coord(2, 2), TestRadius>>, <<Coord(1, 0), FieldRadius>>}
         ELSE {<<Coord(0, 0), TestRadius>>}
    ELSE Cells(map) \X (0..MaxRadius)

Ranges(map) == IF IsTestMap(map) THEN {FieldRadius, TestRange} ELSE 0..MaxRadius

Init ==
    /\ hostmap \in SmallMaps \cup TestMaps
    /\ \E w \in Ranges(hostmap) : engine = DiamondLosNew(w)
    /\ marked = {}
    /\ pc = "idle"
    /\ vision_range = 0
    /\ distance = 0
    /\ pos = 0

\* set_wall between two calls.
SetWall(c) ==
    /\ pc = "idle"
    /\ ~IsTestMap(hostmap)
    /\ LET walls == IF c \in hostmap.walls THEN hostmap.walls \ {c}
                    ELSE hostmap.walls \cup {c}
       IN  /\ Cardinality(walls) <= MaxWalls
           /\ hostmap' = [hostmap EXCEPT !.walls = walls]
    /\ UNCHANGED <<engine, marked, pc, vision_range, distance, pos>>

\* compute_los up to the ring sweep (lines 130-146).
Begin(origin, range) ==
    /\ pc = "idle"
    /\ \E st \in {prologue(engine, origin, range, hostmap)} :
           /\ engine' = st.eng
           /\ pc' = IF st.panicked THEN "panic" ELSE "sweep"
    /\ marked' = seed_marked(origin)
    /\ vision_range' = range
    /\ distance' = 1
    /\ pos' = 0
    /\ UNCHANGED hostmap

\* One propagate_from call of the ring sweep (lines 148-173).
SweepStep ==
    /\ pc = "sweep"
    /\ distance < ring_end(vision_range)
    /\ \E st \in {propagate_from(Run(engine, FALSE), RingOffset(distance, pos), hostmap)} :
           /\ engine' = st.eng
           /\ pc' = IF st.panicked THEN "panic" ELSE "sweep"
    /\ IF pos + 1 < 4 * distance
       THEN distance' = distance /\ pos' = pos + 1
       ELSE distance' = distance + 1 /\ pos' = 0
    /\ UNCHANGED <<hostmap, marked, vision_range>>

\* The emission scan (lines 175-186).
Emit ==
    /\ pc = "sweep"
    /\ distance >= ring_end(vision_range)
    /\ IF EmissionPanics(engine, engine.origin, vision_range, hostmap)
       THEN pc' = "panic" /\ marked' = marked
       ELSE /\ pc' = "emitted"
            /\ marked' = marked \cup emission(engine, engine.origin, vision_range, hostmap)
    /\ UNCHANGED <<engine, hostmap, vision_range, distance, pos>>

\* The reset that ends the call (line 188). The call's argument and loop
\* variables go out of scope, and the marks of the call are forgotten with it.
ResetAndReturn ==
    /\ pc = "emitted"
    /\ engine' = reset(engine)
    /\ pc' = "idle"
    /\ marked' = {}
    /\ vision_range' = 0
    /\ distance' = 0
    /\ pos' = 0
    /\ UNCHANGED hostmap

Next ==
    \/ \E c \in Cells(hostmap) : SetWall(c)
    \/ \E call \in Calls(hostmap) : Begin(call[1], call[2])
    \/ SweepStep
    \/ Emit
    \/ ResetAndReturn

Spec == Init /\ [][Next]_vars

(* ------------------------------ claims --------------------------------- *)

origin == engine.origin

InCall == pc \in {"sweep", "emitted", "panic"}

\* Offsets the scratch grid of the engine has a cell for.
Offsets(eng) ==
    ((-eng.max_view_range)..eng.max_view_range)
        \X ((-eng.max_view_range)..eng.max_view_range)

sub(a, b) == Coord(a[1] - b[1], a[2] - b[2])

sgn(n) == IF n > 0 THEN 1 ELSE IF n < 0 THEN -1 ELSE 0

\* The neighbours of an offset one step closer to the origin: the offsets
\* whose propagate_from pushes to it.
Predecessors(o) ==
    (IF o[1] # 0 THEN {Coord(o[1] - sgn(o[1]), o[2])} ELSE {})
    \cup (IF o[2] # 0 THEN {Coord(o[1], o[2] - sgn(o[2]))} ELSE {})

\* The diamond of the call clipped to the host map.
Diamond(map, o, range) == {c \in Cells(map) : Dist(sub(c, o)) <= range}

\* C1: once a call has started, whatever its radius, the watermark and the
\* walls (a blocking origin included), the origin has been passed to
\* mark_as_visible.
OriginAlwaysVisible == InCall => origin \in marked

OriginAlwaysVisibleWitness ==
    /\ pc = "emitted"
    /\ vision_range = 0
    /\ origin \in hostmap.walls
    /\ origin \in marked

\* C2: whatever calls the engine has served before, a call marks the same
\* coordinates as the same call on a freshly constructed engine of any
\* max_view_range, and every scratch cell is back to its default when the
\* call has returned.
ReuseWithoutLeakage ==
    /\ pc \in {"emitted", "panic"} =>
         \A w \in Ranges(hostmap) :
            marked = compute_los(DiamondLosNew(w), origin, vision_range, hostmap)
    /\ pc = "idle" =>
         \A i \in DOMAIN engine.cache.inner : engine.cache.inner[i] = CellDefault

\* The second call of an engine: the watermark is the radius of an earlier call.
ReuseWithoutLeakageWitness ==
    /\ pc = "emitted"
    /\ IsTestMap(hostmap)
    /\ vision_range = FieldRadius
    /\ engine.max_view_range = TestRadius
    /\ marked = compute_los(DiamondLosNew(FieldRadius), origin, vision_range, hostmap)

\* C3: on the same map and from the same origin, every coordinate a call of a
\* smaller radius marks is marked by the call of the larger radius, and lies
\* in the window of the smaller radius.
MonotonicVisibility ==
    pc = "emitted" =>
        \A r \in 0..(vision_range - 1) :
            \A c \in compute_los(DiamondLosNew(engine.max_view_range), origin, r, hostmap) :
                /\ c \in marked
                /\ abs(c[1] - origin[1]) <= r
                /\ abs(c[2] - origin[2]) <= r

\* A call with walls whose smaller-radius call marks more than the origin.
MonotonicVisibilityWitness ==
    /\ pc = "emitted"
    /\ vision_range >= 2
    /\ hostmap.walls # {}
    /\ Cardinality(compute_los(DiamondLosNew(engine.max_view_range), origin,
                               vision_range - 1, hostmap)) >= 2
    /\ marked # Cells(hostmap)

\* Whether the blocking cell at offset o was reached from a predecessor that
\* is neither ignored nor an obstacle-shadow cell.
ReachedFromOpen(o) ==
    \E p \in Predecessors(o) :
        /\ is_in_bounds(add(origin, p), hostmap)
        /\ ~get_data(engine, p).ignore
        /\ ~is_obstacle(get_data(engine, p))

\* C4: a blocking cell of the map at Manhattan distance 1..radius that was
\* reached from a predecessor which is neither ignored nor an obstacle-shadow
\* cell is marked visible.
WallSelfVisibility ==
    pc = "emitted" =>
        \A c \in hostmap.walls \cap Cells(hostmap) :
            (/\ Dist(sub(c, origin)) >= 1
             /\ Dist(sub(c, origin)) <= vision_range
             /\ ReachedFromOpen(sub(c, origin)))
            => c \in marked

\* A wall marked visible while a cell of the diamond is left unmarked.
WallSelfVisibilityWitness ==
    /\ pc = "emitted"
    /\ \E c \in hostmap.walls :
          /\ Dist(sub(c, origin)) >= 1
          /\ Dist(sub(c, origin)) <= vision_range
          /\ ReachedFromOpen(sub(c, origin))
          /\ c \in marked
    /\ Diamond(hostmap, origin, vision_range) \ marked # {}

\* Rows of test_vision_field: '.....', '.....', '.... ', '...  ', ' .   '.
FieldRows ==
    ((0..4) \X {0, 1}) \cup ((0..3) \X {2}) \cup ((0..2) \X {3}) \cup {Coord(1, 4)}

\* C5: on a map without blocking cells a completed call marks exactly the
\* cells of the map at Manhattan distance <= radius; test_empty marks all 25
\* cells and test_vision_field marks FieldRows.
EmptyGridRegion ==
    (pc = "emitted" /\ hostmap.walls = {}) =>
        /\ marked = Diamond(hostmap, origin, vision_range)
        /\ (IsTestMap(hostmap) /\ vision_range = TestRadius) => marked = Cells(hostmap)
        /\ (IsTestMap(hostmap) /\ vision_range = FieldRadius) => marked = FieldRows

EmptyGridRegionWitness ==
    /\ pc = "emitted"
    /\ hostmap.walls = {}
    /\ IsTestMap(hostmap)
    /\ vision_range = FieldRadius
    /\ origin = Coord(1, 0)
    /\ marked = FieldRows

\* C6 as stated: in scenario S4 the two walls are marked, (4,1), (3,2) and
\* (4,2) are not, and every cell of rows 0, 3 and 4 is marked.
S4OtherRowsFullyVisible ==
    (pc = "emitted" /\ hostmap = S4Map) =>
        /\ {Coord(3, 1), Coord(2, 2)} \subseteq marked
        /\ {Coord(4, 1), Coord(3, 2), Coord(4, 2)} \cap marked = {}
        /\ (0..4) \X {0, 3, 4} \subseteq marked

\* Rows of test_vision_walls: '.....', '...X ', '..X  ', '.... ', '.....'.
S4Rows ==
    ((0..4) \X {0, 4}) \cup ((0..3) \X {1, 3}) \cup ((0..2) \X {2})

\* C6 amended: in scenario S4 the two walls are marked, (4,1), (3,2) and (4,2)
\* are not, rows 0 and 4 are marked in full and row 3 is marked except (4,3).
S4Visibility ==
    (pc = "emitted" /\ hostmap = S4Map) =>
        /\ {Coord(3, 1), Coord(2, 2)} \subseteq marked
        /\ {Coord(4, 1), Coord(3, 2), Coord(4, 2)} \cap marked = {}
        /\ (0..4) \X {0, 4} \subseteq marked
        /\ (0..3) \X {3} \subseteq marked
        /\ Coord(4, 3) \notin marked
        /\ marked = S4Rows

S4VisibilityWitness ==
    /\ pc = "emitted"
    /\ hostmap = S4Map
    /\ origin = Coord(0, 0)
    /\ vision_range = TestRadius
    /\ Coord(4, 3) \notin marked

\* Rows of test_vision_walls_aligned: '..Xx ', '.....', 'X....', ' ....', ' ....'.
S3Rows ==
    ((0..2) \X {0}) \cup ((0..4) \X {1, 2}) \cup ((1..4) \X {3, 4})

AxisDirections == {Coord(1, 0), Coord(0, 1), Coord(-1, 0), Coord(0, -1)}

\* The cell j steps from the origin in direction dir.
AxisCell(dir, j) == Coord(origin[1] + j * dir[1], origin[2] + j * dir[2])

\* Whether the cell k steps along dir is the nearest blocking cell of that axis.
NearestWall(dir, k) ==
    /\ AxisCell(dir, k) \in hostmap.walls \cap Cells(hostmap)
    /\ \A j \in 1..(k - 1) : AxisCell(dir, j) \notin hostmap.walls

\* C7: along each axis direction from the origin the nearest blocking cell
\* within the radius is marked and no cell strictly beyond it on that axis is
\* marked; scenario S3 gives S3Rows.
AxisOcclusion ==
    pc = "emitted" =>
        /\ \A dir \in AxisDirections : \A k \in 1..vision_range :
              NearestWall(dir, k) =>
                 /\ AxisCell(dir, k) \in marked
                 /\ \A j \in (k + 1)..(hostmap.size[1] + hostmap.size[2]) :
                       AxisCell(dir, j) \notin marked
        /\ hostmap = S3Map => marked = S3Rows

\* C8 as stated: during a call of radius r >= 1 no cell at Manhattan distance
\* exactly r is ever visited.
RingAtRadiusNeverReached ==
    (pc \in {"sweep", "emitted"} /\ vision_range >= 1) =>
        \A o \in Offsets(engine) :
            Dist(o) = vision_range => ~get_data(engine, o).visited

\* C8 amended: during a call of radius r >= 1 the sweep propagates from the
\* distances 0..r-1, so it reaches the ring at distance r, and no cell at a
\* Manhattan distance above r is ever visited.
BeyondRadiusNeverReached ==
    (pc \in {"sweep", "emitted"} /\ vision_range >= 1) =>
        \A o \in Offsets(engine) :
            Dist(o) > vision_range => ~get_data(engine, o).visited

\* The ring at the radius is visited, and the scratch grid has cells beyond it.
BeyondRadiusNeverReachedWitness ==
    /\ pc = "emitted"
    /\ vision_range >= 1
    /\ engine.max_view_range > vision_range
    /\ \E o \in Offsets(engine) :
          Dist(o) = vision_range /\ get_data(engine, o).visited

\* C9 as stated: within the sweep of one call an ignore flag that is set
\* stays set.
IgnoredIsSticky ==
    [][(pc = "sweep" /\ pc' = "sweep") =>
          \A i \in DOMAIN engine.cache.inner :
             engine.cache.inner[i].ignore => engine'.cache.inner[i].ignore]_vars

\* C9 amended: within the sweep of one call a cell that is visited and not
\* ignored is never ignored later, and an ignored cell stays ignored by a
\* propagate_from whose source is an obstacle-shadow cell; only a source that
\* is not one clears the flag.
ActiveIsTerminal ==
    [][(pc = "sweep" /\ pc' = "sweep") =>
          \A i \in DOMAIN engine.cache.inner :
             /\ (engine.cache.inner[i].visited /\ ~engine.cache.inner[i].ignore)
                   => ~engine'.cache.inner[i].ignore
             /\ (/\ engine.cache.inner[i].ignore
                 /\ is_obstacle(get_data(engine, RingOffset(distance, pos))))
                   => engine'.cache.inner[i].ignore]_vars

\* A visited cell that is not ignored although one of its predecessors is an
\* obstacle that propagated to it.
ActiveIsTerminalWitness ==
    /\ pc = "emitted"
    /\ \E o \in Offsets(engine) :
          /\ get_data(engine, o).visited
          /\ ~get_data(engine, o).ignore
          /\ Cardinality(Predecessors(o)) = 2
          /\ \E p \in Predecessors(o) :
                /\ is_in_bounds(add(origin, p), hostmap)
                /\ InCache(engine, p)
                /\ is_obstacle(get_data(engine, p))
                /\ ~get_data(engine, p).ignore

\* C10: no scratch access of a call leaves the scratch grid: the bounds
\* assertion of the container never fails.
ScratchAccessesInRange == pc # "panic"

====
